---- MODULE Spec2Model ----
(***************************************************************************)
(* Model of ng-packagr's write-package transform (writePackageTransform,   *)
(* copyAssets, writePackageJson, checkNonPeerDependencies,                 *)
(* generatePackageExports, generateWatchVersion) and of the WorkerPool     *)
(* constructor.                                                            *)
(*                                                                         *)
(* Conventions                                                             *)
(*   - a path is a sequence of segments; an absolute path is the sequence  *)
(*     of its segments below the filesystem root;                          *)
(*   - a JavaScript object is a sequence of [k, v] entries in insertion    *)
(*     order, which is the order of Object.keys and of JSON.stringify;     *)
(*   - an optional property is <<>> when absent and <<value>> when present.*)
(***************************************************************************)
EXTENDS Integers, Sequences, FiniteSets, TLC

VARIABLES
    \* ---- generatePackageExports, applied as a function ----
    declaredExports,   \* entryPoint.packageJson.exports of the primary (optional)
    exportEntryPoints, \* the entryPoints argument
    exportCalls,       \* results of the calls made so far, oldest first
    \* ---- copyAssets ----
    assetList,         \* ngPackage.assets
    assetEntryDirs,    \* destinationFiles.directory of every entry point
    assetPc,           \* position of the call
    assetIdx,          \* index of the next element of [...assets, ...defaultAssets]
    assets,            \* the local list `assets` of resolved entries
    copyQueue,         \* matched files not yet copied, in copy order
    graphNodes,        \* uris of the asset nodes put in the graph
    graphEdges,        \* uris the entry point node depends on
    copied,            \* copyFile operations of the call: <<source, destination>>
    \* ---- the destination tree ----
    destFiles,         \* plain files present below the destination root
    manifests,         \* package.json files present: directory -> content
    \* ---- writePackageTransform / writePackageJson ----
    cfg,               \* options, package and compiler configuration of the run
    fragment,          \* entryPoint.packageJson of the primary entry point
    pc,                \* position of the transform
    inProgress,        \* the entry point in progress: "primary" | "secondary"
    runs,              \* transform invocations started
    now,               \* Date.now(); time passes between two invocations
    written,           \* manifests written by writePackageJson, oldest first
    warnings,          \* spinner.warn / spinner.info messages of the last call
    fragment0,         \* the manifest fragment as declared (history variable)
    \* ---- WorkerPool constructor ----
    poolEnv,           \* process.versions.webcontainer, RUNFILES, compile cache dir
    poolOptions,       \* the caller-supplied options
    piscinaOptions     \* the options handed to the Piscina constructor (optional)

exportVars == <<declaredExports, exportEntryPoints, exportCalls>>
assetVars == <<assetList, assetEntryDirs, assetPc, assetIdx, assets, copyQueue,
               graphNodes, graphEdges, copied>>
fsVars == <<destFiles, manifests>>
manifestVars == <<cfg, fragment, pc, inProgress, runs, now, written, warnings, fragment0>>
poolVars == <<poolEnv, poolOptions, piscinaOptions>>
vars == <<exportVars, assetVars, fsVars, manifestVars, poolVars>>

----------------------------------------------------------------------------
(* Bounds *)

MaxDeclared == 2    \* subpaths declared in packageJson.exports
MaxConditions == 2  \* conditions declared under one subpath
MaxCalls == 2       \* successive calls of generatePackageExports
MaxAssets == 2      \* declared assets
MaxRuns == 2        \* transform invocations (rebuilds)

----------------------------------------------------------------------------
(* Generic helpers *)

None == <<>>
Some(x) == <<x>>
IsSome(o) == o # <<>>
Val(o) == o[1]

Range(s) == {s[i] : i \in DOMAIN s}

\* the sequences over S of length 0..n
RECURSIVE SeqsUpTo(_, _)
SeqsUpTo(S, n) ==
    IF n = 0 THEN {<<>>}
    ELSE LET shorter == SeqsUpTo(S, n - 1)
         IN  shorter \cup {Append(s, x) : s \in {t \in shorter : Len(t) = n - 1}, x \in S}

\* ordered objects: sequences of [k, v] entries, keys distinct
Keys(m) == {m[i].k : i \in DOMAIN m}
HasKey(m, k) == \E i \in DOMAIN m : m[i].k = k
Get(m, k) == m[CHOOSE i \in DOMAIN m : m[i].k = k].v
DistinctKeys(m) == \A i, j \in DOMAIN m : m[i].k = m[j].k => i = j
\* obj[k] = v: an existing key keeps its position, a new key goes last
Assign(m, k, v) ==
    IF HasKey(m, k)
    THEN [i \in DOMAIN m |-> IF m[i].k = k THEN [k |-> k, v |-> v] ELSE m[i]]
    ELSE Append(m, [k |-> k, v |-> v])

\* the destination tree as a function from directories to file contents
MapSet(f, k, v) == [x \in DOMAIN f \cup {k} |-> IF x = k THEN v ELSE f[x]]

----------------------------------------------------------------------------
(* Paths: path.join, path.relative, path.dirname, path.basename *)

\* the segment names of the model that begin with the two characters ".."
DotDotPrefixed == {"..", "..data"}

\* path.normalize of an absolute path: "." dropped, ".." pops, never above the root
RECURSIVE Normalize(_, _)
Normalize(acc, segs) ==
    IF segs = <<>> THEN acc
    ELSE LET s == Head(segs)
         IN  IF s = "." THEN Normalize(acc, Tail(segs))
             ELSE IF s = ".."
                  THEN Normalize(IF acc = <<>> THEN acc ELSE SubSeq(acc, 1, Len(acc) - 1),
                                 Tail(segs))
                  ELSE Normalize(Append(acc, s), Tail(segs))

\* path.join(base, rel) for an absolute base
PathJoin(base, rel) == Normalize(<<>>, base \o rel)

RECURSIVE CommonPrefixLen(_, _)
CommonPrefixLen(a, b) ==
    IF a = <<>> \/ b = <<>> \/ Head(a) # Head(b) THEN 0
    ELSE 1 + CommonPrefixLen(Tail(a), Tail(b))

\* path.relative(from, to) for absolute normalized paths, as segments
PathRelative(from, to) ==
    LET n == CommonPrefixLen(from, to)
    IN  [i \in 1..(Len(from) - n) |-> ".."] \o SubSeq(to, n + 1, Len(to))

\* path.dirname / path.basename of a relative path given as segments
PathDirname(rel) == IF Len(rel) <= 1 THEN <<".">> ELSE SubSeq(rel, 1, Len(rel) - 1)
PathBasename(rel) == IF rel = <<>> THEN <<>> ELSE <<rel[Len(rel)]>>

IsPrefix(p, q) == Len(p) <= Len(q) /\ SubSeq(q, 1, Len(p)) = p

----------------------------------------------------------------------------
(* generatePackageExports *)

Conditions == {"types", "default", "import"}
DeclaredValues == {<<".", "custom.js">>}

PrimaryDest == <<"proj", "dist">>

\* entryPoint.data.entryPoint of the graph's entry point nodes
PrimaryEP ==
    [isSecondaryEntryPoint |-> FALSE, directory |-> <<>>,
     declarationsBundled |-> PrimaryDest \o <<"index.d.ts">>,
     fesm2022 |-> PrimaryDest \o <<"fesm2022", "lib.mjs">>]
FlatModuleFile(dir) == IF dir = "sub" THEN "lib-sub.mjs" ELSE "lib-testing.mjs"
SecondaryEP(dir) ==
    [isSecondaryEntryPoint |-> TRUE, directory |-> <<dir>>,
     declarationsBundled |-> PrimaryDest \o <<dir, "index.d.ts">>,
     fesm2022 |-> PrimaryDest \o <<"fesm2022", FlatModuleFile(dir)>>]

\* JSON.stringify of an export map: the tokens of its text, in order
RECURSIVE JsonStringify(_)
JsonStringify(m) ==
    IF m = <<>> THEN <<>>
    ELSE <<[t |-> "open", k |-> Head(m).k, v |-> <<>>]>>
         \o [i \in DOMAIN Head(m).v |->
                [t |-> "pair", k |-> Head(m).v[i].k, v |-> Head(m).v[i].v]]
         \o JsonStringify(Tail(m))

\* JSON.parse of those tokens: a fresh object, keys in the order of the text
RECURSIVE JsonParse(_, _)
JsonParse(acc, toks) ==
    IF toks = <<>> THEN acc
    ELSE LET tk == Head(toks)
         IN  IF tk.t = "open"
             THEN JsonParse(Append(acc, [k |-> tk.k, v |-> <<>>]), Tail(toks))
             ELSE JsonParse([acc EXCEPT ![Len(acc)].v = Assign(@, tk.k, tk.v)], Tail(toks))

\* the same object, not a copy: what `packageJson.exports ?? {}` would give
ExportsStartAliased(declared) ==
    [exports |-> IF IsSome(declared) THEN Val(declared) ELSE <<>>,
     aliased |-> IsSome(declared)]

\* const exports = packageJson.exports ? JSON.parse(JSON.stringify(...)) : {}
ExportsStart(declared) ==
    [exports |-> IF IsSome(declared) THEN JsonParse(<<>>, JsonStringify(Val(declared)))
                 ELSE <<>>,
     aliased |-> FALSE]

\* first-write-wins variant: a condition already present is kept
SetConditionKeep(subpathExport, conditionName, value) ==
    IF HasKey(subpathExport, conditionName) THEN subpathExport
    ELSE Assign(subpathExport, conditionName, value)

\* subpathExport[conditionName] = mapping[conditionName]
SetCondition(subpathExport, conditionName, value) ==
    Assign(subpathExport, conditionName, value)

\* the loop of insertMappingOrError over Object.keys(mapping); st = [exports, warnings]
RECURSIVE InsertConditions(_, _, _)
InsertConditions(st, subpath, mapping) ==
    IF mapping = <<>> THEN st
    ELSE LET c == Head(mapping)
             subpathExport == Get(st.exports, subpath)
             warned == IF HasKey(subpathExport, c.k)
                       THEN Append(st.warnings, [subpath |-> subpath, condition |-> c.k])
                       ELSE st.warnings
             next == [exports |-> Assign(st.exports, subpath,
                                         SetCondition(subpathExport, c.k, c.v)),
                      warnings |-> warned]
         IN  InsertConditions(next, subpath, Tail(mapping))

insertMappingOrError(st, subpath, mapping) ==
    InsertConditions(
        [st EXCEPT !.exports = IF HasKey(@, subpath) THEN @ ELSE Assign(@, subpath, <<>>)],
        subpath, mapping)

\* './' + ensureUnixPath(path.relative(destinationPath, filePath))
ExportRelative(destinationPath, filePath) == <<".">> \o PathRelative(destinationPath, filePath)

SubpathOf(ep) == IF ep.isSecondaryEntryPoint THEN <<".">> \o ep.directory ELSE <<".">>

GeneratedMapping(destinationPath, ep) ==
    << [k |-> "types", v |-> ExportRelative(destinationPath, ep.declarationsBundled)],
       [k |-> "default", v |-> ExportRelative(destinationPath, ep.fesm2022)] >>

PackageJsonSubpath == <<".", "package.json">>
PackageJsonMapping == << [k |-> "default", v |-> <<".", "package.json">>] >>

RECURSIVE InsertEntryPoints(_, _, _)
InsertEntryPoints(st, destinationPath, eps) ==
    IF eps = <<>> THEN st
    ELSE InsertEntryPoints(
             insertMappingOrError(st, SubpathOf(Head(eps)),
                                  GeneratedMapping(destinationPath, Head(eps))),
             destinationPath, Tail(eps))

\* the returned map, the warnings logged, and packageJson.exports after the call
generatePackageExports(destinationPath, declared, eps) ==
    LET start == ExportsStart(declared)
        st0 == insertMappingOrError([exports |-> start.exports, warnings |-> <<>>],
                                    PackageJsonSubpath, PackageJsonMapping)
        st == InsertEntryPoints(st0, destinationPath, eps)
    IN  [exports |-> st.exports,
         warnings |-> st.warnings,
         declaredAfter |-> IF start.aliased THEN Some(st.exports) ELSE declared]

----------------------------------------------------------------------------
(* copyAssets *)

SrcRoot == <<"proj", "lib">>     \* ngPackage.src
DestRoot == PrimaryDest          \* ngPackage.dest

\* the files of the source tree and its surroundings
FsFiles ==
    { SrcRoot \o <<"LICENSE">>,
      SrcRoot \o <<"README.md">>,
      SrcRoot \o <<".gitkeep">>,
      SrcRoot \o <<"assets", "a.png">>,
      SrcRoot \o <<"sub", "README.md">>,
      SrcRoot \o <<"..data", "k.txt">>,
      <<"proj", "secret.txt">> }

FsIsFile(p) == p \in FsFiles
FsIsDirectory(p) == \E f \in FsFiles : IsPrefix(p, f) /\ f # p

RecursiveAll == <<"**", "*">>     \* the glob '**/*'
AllMarkdown == <<"*.md">>         \* the glob '*.md'
MarkdownNames == {"README.md"}

\* a set as a sequence, in a fixed order
RECURSIVE SetToSeq(_)
SetToSeq(S) ==
    IF S = {} THEN <<>>
    ELSE LET x == CHOOSE y \in S : TRUE IN <<x>> \o SetToSeq(S \ {x})

\* glob(pattern, {cwd, ignore: [..., '.gitkeep', ...], dot: true, onlyFiles: true}):
\* the matched files, relative to cwd. Of the ignored patterns only '.gitkeep'
\* has a file in FsFiles; `${ngPackage.dest}/**` matches none, the destination
\* lying beside the source root.
Glob(pattern, cwd) ==
    LET below == {SubSeq(f, Len(cwd) + 1, Len(f)) : f \in {g \in FsFiles : IsPrefix(cwd, g)}}
        hits == IF pattern = RecursiveAll THEN below
                ELSE IF pattern = AllMarkdown
                     THEN {r \in below : Len(r) = 1 /\ r[1] \in MarkdownNames}
                     ELSE {r \in {pattern} : FsIsFile(PathJoin(cwd, r))}
    IN  SetToSeq({r \in hits : r # <<".gitkeep">>})

\* defaultAssets: LICENSE at the root, README.md of every entry point
DefaultAssets(entryDirs) ==
    <<[kind |-> "object", glob |-> <<"LICENSE">>, input |-> <<>>, output |-> <<>>]>>
    \o [i \in DOMAIN entryDirs |->
           [kind |-> "object", glob |-> <<"README.md">>,
            input |-> entryDirs[i], output |-> entryDirs[i]]]

\* [...ngPackage.assets, ...defaultAssets]
CombinedAssets == assetList \o DefaultAssets(assetEntryDirs)

\* the body of the first loop up to the two path.join calls
ResolveAsset(assetPath) ==
    LET asset ==
            IF assetPath.kind = "object"
            THEN [glob |-> assetPath.glob, input |-> assetPath.input, output |-> assetPath.output]
            ELSE LET probe == PathJoin(SrcRoot, assetPath.path)
                 IN  IF FsIsDirectory(probe)
                     THEN [glob |-> RecursiveAll, input |-> assetPath.path,
                           output |-> assetPath.path]
                     ELSE IF FsIsFile(probe)
                          THEN [glob |-> PathBasename(assetPath.path),
                                input |-> PathDirname(assetPath.path),
                                output |-> PathDirname(assetPath.path)]
                          ELSE [glob |-> assetPath.path, input |-> <<>>, output |-> <<>>]
    IN  [glob |-> asset.glob,
         input |-> PathJoin(SrcRoot, asset.input),
         output |-> PathJoin(DestRoot, asset.output)]

\* path.relative(datum, target).startsWith('..')
isAncestorPath(target, datum) ==
    LET rel == PathRelative(datum, target)
    IN  rel # <<>> /\ rel[1] \in DotDotPrefixed

\* a check of the input alone
AssetErrorInputOnly(asset) ==
    IF isAncestorPath(asset.input, SrcRoot)
    THEN "Cannot read assets from a location outside of the project root."
    ELSE "none"

\* the two containment checks of the first loop: the error thrown, or "none"
AssetError(asset) ==
    IF isAncestorPath(asset.input, SrcRoot)
    THEN "Cannot read assets from a location outside of the project root."
    ELSE IF isAncestorPath(asset.output, DestRoot)
         THEN "Cannot write assets to a location outside of the output path."
         ELSE "none"

\* one iteration of the first loop
ResolveStep ==
    /\ assetPc = "resolve"
    /\ assetIdx <= Len(CombinedAssets)
    /\ LET asset == ResolveAsset(CombinedAssets[assetIdx])
       IN  IF AssetError(asset) # "none"
           THEN /\ assetPc' = AssetError(asset)
                /\ UNCHANGED <<assetIdx, assets>>
           ELSE /\ assets' = Append(assets, asset)
                /\ assetIdx' = assetIdx + 1
                /\ assetPc' = assetPc
    /\ UNCHANGED <<assetList, assetEntryDirs, copyQueue, graphNodes, graphEdges, copied>>
    /\ UNCHANGED <<exportVars, fsVars, manifestVars, poolVars>>

\* the first loop is over: the second loop starts at the first resolved asset
ResolveDone ==
    /\ assetPc = "resolve"
    /\ assetIdx > Len(CombinedAssets)
    /\ assetPc' = "copy"
    /\ assetIdx' = 1
    /\ UNCHANGED <<assetList, assetEntryDirs, assets, copyQueue, graphNodes, graphEdges, copied>>
    /\ UNCHANGED <<exportVars, fsVars, manifestVars, poolVars>>

\* second loop, next asset: await glob(asset.glob, ...)
GlobStep ==
    /\ assetPc = "copy"
    /\ copyQueue = <<>>
    /\ assetIdx <= Len(assets)
    /\ LET asset == assets[assetIdx]
           filePaths == Glob(asset.glob, asset.input)
       IN  copyQueue' = [i \in DOMAIN filePaths |->
                            [src |-> PathJoin(asset.input, filePaths[i]),
                             dest |-> PathJoin(asset.output, filePaths[i])]]
    /\ assetIdx' = assetIdx + 1
    /\ UNCHANGED <<assetList, assetEntryDirs, assetPc, assets, graphNodes, graphEdges, copied>>
    /\ UNCHANGED <<exportVars, fsVars, manifestVars, poolVars>>

\* inner loop, one file: graph.put, entryPointNode.dependsOn, await copyFile
CopyFileStep ==
    /\ assetPc = "copy"
    /\ copyQueue # <<>>
    /\ LET f == Head(copyQueue)
       IN  /\ graphNodes' = graphNodes \cup {f.src}
           /\ graphEdges' = graphEdges \cup {f.src}
           /\ copied' = Append(copied, <<f.src, f.dest>>)
           /\ destFiles' = destFiles \cup {f.dest}
    /\ copyQueue' = Tail(copyQueue)
    /\ UNCHANGED <<assetList, assetEntryDirs, assetPc, assetIdx, assets>>
    /\ UNCHANGED <<exportVars, manifests, manifestVars, poolVars>>

\* the second loop is over: copyAssets returns
CopyDone ==
    /\ assetPc = "copy"
    /\ copyQueue = <<>>
    /\ assetIdx > Len(assets)
    /\ assetPc' = "done"
    /\ UNCHANGED <<assetList, assetEntryDirs, assetIdx, assets, copyQueue, graphNodes,
                   graphEdges, copied>>
    /\ UNCHANGED <<exportVars, fsVars, manifestVars, poolVars>>

AssetThrew == assetPc \notin {"idle", "resolve", "copy", "done"}

----------------------------------------------------------------------------
(* writePackageJson *)

\* ordered object without key k (delete obj[k])
RECURSIVE Remove(_, _)
Remove(m, k) ==
    IF m = <<>> THEN <<>>
    ELSE IF Head(m).k = k THEN Remove(Tail(m), k)
         ELSE <<Head(m)>> \o Remove(Tail(m), k)

\* obj?.[k] is truthy: the object exists, has the key, and the string is not empty
Truthy(obj, k) == IsSome(obj) /\ HasKey(Val(obj), k) /\ Get(Val(obj), k) # ""

\* generateWatchVersion(): `0.0.0-watch+${Date.now()}`
generateWatchVersion(clock) == [watch |-> TRUE, stamp |-> clock]
DeclaredVersion == [watch |-> FALSE, stamp |-> 0]      \* a version such as "1.0.0"

\* the script injected in full compilation mode
PrepublishGuard == "node --eval \"console.error('ERROR: ...')\" && exit 1"

\* new RegExp(value).test(dep), for the patterns and names of the model
RegexTest(pattern, dep) ==
    \/ pattern = "^tslib$" /\ dep = "tslib"
    \/ pattern = "pad" /\ dep = "left-pad"

packageJsonPropertiesToDelete ==
    {"stylelint", "prettier", "browserslist", "devDependencies", "jest", "workspaces", "husky"}

\* the peer branch without the delete
TslibStepNoDelete(dependencies, peerDependencies, angularTslib) ==
    IF ~Truthy(peerDependencies, "tslib") /\ ~Truthy(dependencies, "tslib")
    THEN [dependencies |-> IF IsSome(angularTslib) /\ Val(angularTslib) # ""
                           THEN Some(Assign(IF IsSome(dependencies) THEN Val(dependencies)
                                            ELSE <<>>, "tslib", Val(angularTslib)))
                           ELSE dependencies,
          peerDependencies |-> peerDependencies, moved |-> FALSE]
    ELSE IF Truthy(peerDependencies, "tslib")
         THEN [dependencies |->
                   Some(Assign(IF IsSome(dependencies) THEN Val(dependencies) ELSE <<>>,
                               "tslib", Get(Val(peerDependencies), "tslib"))),
               peerDependencies |-> peerDependencies,
               moved |-> TRUE]
         ELSE [dependencies |-> dependencies, peerDependencies |-> peerDependencies,
               moved |-> FALSE]

\* lines 219-238: inject tslib, or move it from peerDependencies to dependencies.
\* moved: the peer branch ran (it warns, and it deletes the key from the object
\* that packageJson shares with entryPoint.packageJson)
TslibStep(dependencies, peerDependencies, angularTslib) ==
    IF ~Truthy(peerDependencies, "tslib") /\ ~Truthy(dependencies, "tslib")
    THEN [dependencies |-> IF IsSome(angularTslib) /\ Val(angularTslib) # ""
                           THEN Some(Assign(IF IsSome(dependencies) THEN Val(dependencies)
                                            ELSE <<>>, "tslib", Val(angularTslib)))
                           ELSE dependencies,
          peerDependencies |-> peerDependencies, moved |-> FALSE]
    ELSE IF Truthy(peerDependencies, "tslib")
         THEN [dependencies |->
                   Some(Assign(IF IsSome(dependencies) THEN Val(dependencies) ELSE <<>>,
                               "tslib", Get(Val(peerDependencies), "tslib"))),
               peerDependencies |-> Some(Remove(Val(peerDependencies), "tslib")),
               moved |-> TRUE]
         ELSE [dependencies |-> dependencies, peerDependencies |-> peerDependencies,
               moved |-> FALSE]

\* a check that lets every dependency pass
checkNonPeerDependenciesOff(dependencies, allowed) == "none"

\* the first key of packageJson.dependencies that no pattern matches, or "none"
RECURSIVE checkNonPeerDependencies(_, _)
checkNonPeerDependencies(dependencies, allowed) ==
    IF ~IsSome(dependencies) \/ Val(dependencies) = <<>> THEN "none"
    ELSE LET dep == Head(Val(dependencies)).k
         IN  IF \E regex \in allowed : RegexTest(regex, dep)
             THEN checkNonPeerDependencies(Some(Tail(Val(dependencies))), allowed)
             ELSE dep

\* a falsy test of keepLifecycleScripts
ScriptsStepFalsy(scripts, keepLifecycleScripts) ==
    IF IsSome(scripts) /\ keepLifecycleScripts = "false" THEN None ELSE scripts

\* lines 250-262: packageJson.scripts after the removal step
ScriptsStep(scripts, keepLifecycleScripts) ==
    IF IsSome(scripts) /\ keepLifecycleScripts # "true" THEN None ELSE scripts

\* a guard injected only when the mode is 'full'
GuardStepFullOnly(scripts, compilationMode) ==
    IF compilationMode = "full"
    THEN Some(Assign(IF IsSome(scripts) THEN Val(scripts) ELSE <<>>,
                     "prepublishOnly", PrepublishGuard))
    ELSE scripts

\* lines 264-272: packageJson.scripts after the publish guard
GuardStep(scripts, compilationMode) ==
    IF compilationMode # "partial"
    THEN Some(Assign(IF IsSome(scripts) THEN Val(scripts) ELSE <<>>,
                     "prepublishOnly", PrepublishGuard))
    ELSE scripts

\* the whole of writePackageJson on entryPoint = [packageJson, moduleId];
\* host = [angularTslib, clock] is what the call reads from its surroundings:
\* the tslib version of @angular/compiler/package.json and Date.now().
\* error: the dependency named by the thrown error, or "none";
\* packageJson: the object serialized when nothing was thrown;
\* fragmentAfter: entryPoint.packageJson after the call. The spread of line 207
\* copies one level only, so peerDependencies and scripts are objects shared
\* with the fragment, while dependencies is replaced by a new object.
writePackageJson(entryPoint, pkg, additionalProperties, isWatchMode, compilationMode, host) ==
    LET frag == entryPoint.packageJson
        version == IF isWatchMode THEN Some(generateWatchVersion(host.clock)) ELSE frag.version
        tslib == TslibStep(frag.dependencies, frag.peerDependencies, host.angularTslib)
        error == checkNonPeerDependencies(tslib.dependencies, pkg.allowedNonPeerDependencies)
        kept == ScriptsStep(frag.scripts, pkg.keepLifecycleScripts)
        scripts == GuardStep(kept, compilationMode)
        stripped == frag.other \cap (packageJsonPropertiesToDelete \cup {"ngPackage"})
        messages ==
            (IF tslib.moved THEN {"warn: tslib moved to dependencies"} ELSE {})
            \cup (IF error # "none" THEN {"warn: dependencies not recommended"} ELSE {})
            \cup (IF error = "none" /\ IsSome(frag.scripts)
                  THEN IF pkg.keepLifecycleScripts # "true"
                       THEN {"info: removing scripts"}
                       ELSE {"warn: keepLifecycleScripts enabled"}
                  ELSE {})
            \cup (IF error = "none" /\ stripped \ {"ngPackage"} # {}
                  THEN {"info: removing section"} ELSE {})
    IN  [error |-> error,
         messages |-> messages,
         packageJson |->
             [name |-> entryPoint.moduleId,
              version |-> version,
              module |-> additionalProperties.module,
              typings |-> additionalProperties.typings,
              exports |-> additionalProperties.exports,
              sideEffects |-> additionalProperties.sideEffects,
              peerDependencies |-> tslib.peerDependencies,
              dependencies |-> tslib.dependencies,
              scripts |-> scripts,
              other |-> frag.other \ stripped],
         fragmentAfter |->
             [frag EXCEPT
                 !.peerDependencies = tslib.peerDependencies,
                 !.scripts = IF error = "none" /\ IsSome(kept) THEN scripts ELSE @]]

\* JSON.stringify(packageJson, undefined, 2): the properties that are defined,
\* as [k, v] entries (the order of the top-level keys is not modelled)
ManifestStringify(m) ==
    <<[k |-> "name", v |-> m.name]>>
    \o (IF IsSome(m.version) THEN <<[k |-> "version", v |-> Val(m.version)]>> ELSE <<>>)
    \o <<[k |-> "module", v |-> m.module], [k |-> "typings", v |-> m.typings],
         [k |-> "exports", v |-> m.exports], [k |-> "sideEffects", v |-> m.sideEffects]>>
    \o (IF IsSome(m.peerDependencies)
        THEN <<[k |-> "peerDependencies", v |-> Val(m.peerDependencies)]>> ELSE <<>>)
    \o (IF IsSome(m.dependencies)
        THEN <<[k |-> "dependencies", v |-> Val(m.dependencies)]>> ELSE <<>>)
    \o (IF IsSome(m.scripts) THEN <<[k |-> "scripts", v |-> Val(m.scripts)]>> ELSE <<>>)
    \o [i \in 1..Cardinality(m.other) |-> [k |-> SetToSeq(m.other)[i], v |-> "declared"]]

----------------------------------------------------------------------------
(* writePackageTransform *)

\* graph.filter(isEntryPoint) of the package being built
TransformEntryPoints == <<PrimaryEP, SecondaryEP("sub")>>
SecondaryDest == PrimaryDest \o <<"sub">>
PrimaryModuleId == "lib"
NpmIgnore == PrimaryDest \o <<".npmignore">>

\* ensureUnixPath(path.relative(ngEntryPoint.destinationPath, filePath))
relativeUnixFromDestPath(destinationPath, filePath) == PathRelative(destinationPath, filePath)

\* rmdir(dir, {recursive: true}) on the two parts of the destination tree
RmdirFiles(files, dir) == {f \in files : ~IsPrefix(dir, f)}
RmdirManifests(ms, dir) == [d \in {x \in DOMAIN ms : ~IsPrefix(dir, x)} |-> ms[d]]

\* the transform is entered with one entry point in progress
Begin ==
    /\ pc \in {"idle", "done", "failed"}
    /\ runs < MaxRuns
    /\ runs' = runs + 1
    /\ now' = now + 1
    /\ \E ep \in {"primary", "secondary"} :
          /\ inProgress' = ep
          /\ IF ep = "primary"
             THEN /\ pc' = "copyAssets"
                  /\ assetPc' = "resolve"
                  /\ assetEntryDirs' = [i \in DOMAIN TransformEntryPoints |->
                                           TransformEntryPoints[i].directory]
                  /\ assetIdx' = 1
                  /\ assets' = <<>>
                  /\ copyQueue' = <<>>
                  /\ copied' = <<>>
                  /\ UNCHANGED <<assetList, graphNodes, graphEdges>>
             ELSE /\ pc' = "secondary"
                  /\ UNCHANGED assetVars
    /\ UNCHANGED <<cfg, fragment, written, warnings, fragment0>>
    /\ UNCHANGED <<exportVars, fsVars, poolVars>>

\* lines 34-37: copyAssets threw: spinner.fail(), rethrow
AssetsFailed ==
    /\ pc = "copyAssets"
    /\ AssetThrew
    /\ pc' = "failed"
    /\ UNCHANGED <<cfg, fragment, inProgress, runs, now, written, warnings, fragment0>>
    /\ UNCHANGED <<exportVars, assetVars, fsVars, poolVars>>

\* lines 47-54: .npmignore is written outside watch mode
WriteNpmIgnore ==
    /\ pc = "copyAssets"
    /\ assetPc = "done"
    /\ destFiles' = IF cfg.watch THEN destFiles ELSE destFiles \cup {NpmIgnore}
    /\ pc' = "writePackageJson"
    /\ UNCHANGED <<cfg, fragment, inProgress, runs, now, written, warnings, fragment0>>
    /\ UNCHANGED <<exportVars, assetVars, manifests, poolVars>>

\* lines 56-75: the call of writePackageJson for the primary entry point
WritePackageJson ==
    /\ pc = "writePackageJson"
    /\ LET gen == generatePackageExports(PrimaryDest, fragment.exports, TransformEntryPoints)
           additionalProperties ==
               [module |-> relativeUnixFromDestPath(PrimaryDest, PrimaryEP.fesm2022),
                typings |-> relativeUnixFromDestPath(PrimaryDest, PrimaryEP.declarationsBundled),
                exports |-> gen.exports,
                sideEffects |-> IF IsSome(fragment.sideEffects)
                                THEN Val(fragment.sideEffects) ELSE FALSE]
           r == writePackageJson(
                    [packageJson |-> [fragment EXCEPT !.exports = gen.declaredAfter],
                     moduleId |-> PrimaryModuleId],
                    cfg, additionalProperties, cfg.watch, cfg.compilationMode,
                    [angularTslib |-> cfg.angularTslib, clock |-> now])
       IN  /\ fragment' = r.fragmentAfter
           /\ warnings' = r.messages
           /\ written' = Append(written, [before |-> fragment, error |-> r.error,
                                          messages |-> r.messages,
                                          packageJson |-> r.packageJson])
           /\ IF r.error = "none"
              THEN /\ manifests' = MapSet(manifests, PrimaryDest,
                                          ManifestStringify(r.packageJson))
                   /\ destFiles' = destFiles
                   /\ pc' = "done"
              ELSE /\ manifests' = RmdirManifests(manifests, PrimaryDest)
                   /\ destFiles' = RmdirFiles(destFiles, PrimaryDest)
                   /\ pc' = "failed"
    /\ UNCHANGED <<cfg, inProgress, runs, now, fragment0>>
    /\ UNCHANGED <<exportVars, assetVars, poolVars>>

\* the minimal manifest of a secondary entry point
SecondaryStub ==
    <<[k |-> "module",
       v |-> relativeUnixFromDestPath(SecondaryDest, SecondaryEP("sub").fesm2022)]>>

\* a refresh that does not look at options.watch
RefreshPrimaryVersionAlways(ms, watch, clock) ==
    IF PrimaryDest \in DOMAIN ms
    THEN MapSet(ms, PrimaryDest, Assign(ms[PrimaryDest], "version", generateWatchVersion(clock)))
    ELSE ms

\* lines 78-93: in watch mode, an existing primary package.json is parsed, its
\* version replaced, and written back
RefreshPrimaryVersion(ms, watch, clock) ==
    IF watch /\ PrimaryDest \in DOMAIN ms
    THEN MapSet(ms, PrimaryDest, Assign(ms[PrimaryDest], "version", generateWatchVersion(clock)))
    ELSE ms

\* lines 77-101: the branch of a secondary entry point
SecondaryManifest ==
    /\ pc = "secondary"
    /\ manifests' = MapSet(RefreshPrimaryVersion(manifests, cfg.watch, now),
                           SecondaryDest, SecondaryStub)
    /\ pc' = "done"
    /\ UNCHANGED <<cfg, fragment, inProgress, runs, now, written, warnings, fragment0>>
    /\ UNCHANGED <<exportVars, assetVars, destFiles, poolVars>>

----------------------------------------------------------------------------
(* WorkerPool constructor *)

DefaultMinThreads == 1
DefaultIdleTimeout == 1000

\* {...defaults, ...options}: a key of options, even one set to undefined,
\* replaces the default
Spread(default, option) == IF IsSome(option) THEN Val(option) ELSE default

\* a default that ignores the runtime
DefaultAtomicsSync(webcontainer) == "sync"

\* process.versions.webcontainer ? 'disabled' : 'sync'
DefaultAtomics(webcontainer) == IF webcontainer THEN "disabled" ELSE "sync"

\* process.env of the model
ProcessEnv(env) ==
    IF env.runfiles THEN <<[k |-> "PATH", v |-> "/bin"], [k |-> "RUNFILES", v |-> "/r"]>>
    ELSE <<[k |-> "PATH", v |-> "/bin"]>>

\* process.env['RUNFILES'] ? undefined : getCompileCacheDir?.()
CompileCacheDirectory(env) == IF env.runfiles THEN None ELSE env.compileCacheDir

\* the object passed to super(): lines 37-61
WorkerPoolOptions(env, options) ==
    LET dir == CompileCacheDirectory(env)
        envOption == Spread("undefined", options.env)
    IN  [minThreads |-> Spread(DefaultMinThreads, options.minThreads),
         idleTimeout |-> Spread(DefaultIdleTimeout, options.idleTimeout),
         atomics |-> Spread(DefaultAtomics(env.webcontainer), options.atomics),
         recordTiming |-> Spread("false", options.recordTiming),
         env |-> IF IsSome(dir) /\ Val(dir) # ""
                 THEN IF IsSome(options.env)
                      THEN Some(Assign(Val(options.env), "NODE_COMPILE_CACHE", Val(dir)))
                      ELSE Some(Assign(ProcessEnv(env), "NODE_COMPILE_CACHE", Val(dir)))
                 ELSE options.env]

\* new WorkerPool(options); an env object of the caller is updated in place
ConstructWorkerPool ==
    /\ piscinaOptions = None
    /\ LET o == WorkerPoolOptions(poolEnv, poolOptions)
       IN  /\ piscinaOptions' = Some(o)
           /\ poolOptions' = IF IsSome(poolOptions.env)
                              THEN [poolOptions EXCEPT !.env = o.env] ELSE poolOptions
    /\ UNCHANGED <<poolEnv, exportVars, assetVars, fsVars, manifestVars>>

----------------------------------------------------------------------------
(* Idle values: a specification about one part leaves the other parts here *)

ExportsIdle ==
    /\ declaredExports = None
    /\ exportEntryPoints = <<>>
    /\ exportCalls = <<>>

AssetsIdle ==
    /\ assetList = <<>>
    /\ assetEntryDirs = <<>>
    /\ assetPc = "idle"
    /\ assetIdx = 1
    /\ assets = <<>>
    /\ copyQueue = <<>>
    /\ graphNodes = {}
    /\ graphEdges = {}
    /\ copied = <<>>

FsEmpty ==
    /\ destFiles = {}
    /\ manifests = <<>>

ManifestIdle ==
    /\ cfg = <<>>
    /\ fragment = <<>>
    /\ fragment0 = <<>>
    /\ pc = "idle"
    /\ inProgress = "primary"
    /\ runs = 0
    /\ now = 0
    /\ written = <<>>
    /\ warnings = {}

PoolIdle ==
    /\ poolEnv = <<>>
    /\ poolOptions = <<>>
    /\ piscinaOptions = None

----------------------------------------------------------------------------
(* Specification SpecExports: generatePackageExports applied to bounded inputs *)

DeclaredSubpaths == {<<".">>, <<".", "package.json">>, <<".", "sub">>}

ConditionalExports ==
    {m \in SeqsUpTo([k : Conditions, v : DeclaredValues], MaxConditions) : DistinctKeys(m)}

DeclaredExportMaps ==
    {m \in SeqsUpTo([k : DeclaredSubpaths, v : ConditionalExports], MaxDeclared) :
        DistinctKeys(m)}

\* graph.filter(isEntryPoint): one primary, secondaries in distinct directories
EntryPointLists ==
    { <<PrimaryEP>>,
      <<SecondaryEP("sub"), PrimaryEP>>,
      <<PrimaryEP, SecondaryEP("sub"), SecondaryEP("testing")>> }

InitExports ==
    /\ declaredExports \in {None} \cup {Some(m) : m \in DeclaredExportMaps}
    /\ exportEntryPoints \in EntryPointLists
    /\ exportCalls = <<>>
    /\ AssetsIdle /\ FsEmpty /\ ManifestIdle /\ PoolIdle

\* one call generatePackageExports(ngEntryPoint, entryPoints)
GenerateExports ==
    /\ Len(exportCalls) < MaxCalls
    /\ LET r == generatePackageExports(PrimaryDest, declaredExports, exportEntryPoints)
       IN  /\ exportCalls' = Append(exportCalls,
                                    [declaredBefore |-> declaredExports,
                                     exports |-> r.exports,
                                     warnings |-> r.warnings,
                                     declaredAfter |-> r.declaredAfter])
           /\ declaredExports' = r.declaredAfter
    /\ UNCHANGED <<exportEntryPoints, assetVars, fsVars, manifestVars, poolVars>>

NextExports == GenerateExports

SpecExports == InitExports /\ [][NextExports]_vars

----------------------------------------------------------------------------
(* Specification SpecAssets: one call of copyAssets on bounded asset lists *)

AssetInputs == {<<>>, <<"assets">>, <<"..">>, <<"assets", "..", "..">>}
AssetOutputs == {<<>>, <<"assets">>, <<"..", "other">>}
AssetGlobs == {RecursiveAll, <<"a.png">>}

\* AssetPattern: a structured entry or a bare string
AssetPatterns ==
    [kind : {"object"}, glob : AssetGlobs, input : AssetInputs, output : AssetOutputs]
    \cup [kind : {"string"},
          path : {<<"assets">>, <<"assets", "a.png">>, <<"README.md">>, <<"..", "secret.txt">>,
                  <<"..">>, <<"..data">>, AllMarkdown}]

EntryDirLists == { << <<>> >>, << <<>>, <<"sub">> >> }

InitAssets ==
    /\ assetList \in SeqsUpTo(AssetPatterns, MaxAssets)
    /\ assetEntryDirs \in EntryDirLists
    /\ assetPc = "resolve"
    /\ assetIdx = 1
    /\ assets = <<>>
    /\ copyQueue = <<>>
    /\ graphNodes = {}
    /\ graphEdges = {}
    /\ copied = <<>>
    /\ ExportsIdle /\ FsEmpty /\ ManifestIdle /\ PoolIdle

NextAssets ==
    \/ ResolveStep
    \/ ResolveDone
    \/ GlobStep
    \/ CopyFileStep
    \/ CopyDone

SpecAssets == InitAssets /\ [][NextAssets]_vars

----------------------------------------------------------------------------
(* Specification SpecManifest: the transform on a package with a primary and *)
(* a secondary entry point, over bounded manifests and configurations        *)

PeerDependencyMaps ==
    { None,
      Some(<<[k |-> "tslib", v |-> "^2.0.0"]>>),
      Some(<<[k |-> "tslib", v |-> ""]>>),
      Some(<<[k |-> "left-pad", v |-> "^1.0.0"], [k |-> "tslib", v |-> "^2.0.0"]>>) }

DependencyMaps ==
    { None,
      Some(<<[k |-> "tslib", v |-> "^2.1.0"]>>),
      Some(<<[k |-> "tslib", v |-> ""]>>),
      Some(<<[k |-> "left-pad", v |-> "^1.0.0"]>>),
      Some(<<[k |-> "left-pad", v |-> "^1.0.0"], [k |-> "tslib", v |-> "^2.1.0"]>>),
      Some(<<[k |-> "tslib", v |-> "^2.1.0"], [k |-> "left-pad", v |-> "^1.0.0"]>>) }

ScriptMaps ==
    { None, Some(<<>>),
      Some(<<[k |-> "build", v |-> "tsc"]>>),
      Some(<<[k |-> "build", v |-> "tsc"], [k |-> "prepublishOnly", v |-> "tsc"]>>) }

Fragments ==
    [version : {Some(DeclaredVersion)},
     sideEffects : {None},
     exports : {None},
     peerDependencies : PeerDependencyMaps,
     dependencies : DependencyMaps,
     scripts : ScriptMaps,
     other : {{"ngPackage", "devDependencies", "license"}}]

Configurations ==
    [watch : BOOLEAN,
     compilationMode : {"partial", "full", "undefined"},
     keepLifecycleScripts : {"true", "false", "yes"},
     allowedNonPeerDependencies : {{}, {"^tslib$"}, {"^tslib$", "pad"}},
     angularTslib : {None, Some("^2.3.0")}]

OutsideAsset == [kind |-> "string", path |-> <<"..">>]

\* every manifest and configuration with the default assets alone, and one
\* package whose declared asset lies outside the source root
InitManifest ==
    /\ \/ /\ cfg \in Configurations
          /\ fragment \in Fragments
          /\ assetList = <<>>
       \/ /\ cfg = [watch |-> FALSE, compilationMode |-> "partial",
                     keepLifecycleScripts |-> "false",
                     allowedNonPeerDependencies |-> {"^tslib$"},
                     angularTslib |-> Some("^2.3.0")]
          /\ fragment = [version |-> Some(DeclaredVersion), sideEffects |-> None,
                          exports |-> None, peerDependencies |-> None,
                          dependencies |-> None, scripts |-> None,
                          other |-> {"ngPackage", "devDependencies", "license"}]
          /\ assetList = <<OutsideAsset>>
    /\ fragment0 = fragment
    /\ pc = "idle"
    /\ inProgress = "primary"
    /\ runs = 0
    /\ now = 0
    /\ written = <<>>
    /\ warnings = {}
    /\ assetEntryDirs = <<>>
    /\ assetPc = "idle"
    /\ assetIdx = 1
    /\ assets = <<>>
    /\ copyQueue = <<>>
    /\ graphNodes = {}
    /\ graphEdges = {}
    /\ copied = <<>>
    /\ ExportsIdle /\ FsEmpty /\ PoolIdle

NextManifest ==
    \/ Begin
    \/ ResolveStep
    \/ ResolveDone
    \/ GlobStep
    \/ CopyFileStep
    \/ CopyDone
    \/ AssetsFailed
    \/ WriteNpmIgnore
    \/ WritePackageJson
    \/ SecondaryManifest

SpecManifest == InitManifest /\ [][NextManifest]_vars

----------------------------------------------------------------------------
(* Specification SpecPool: the WorkerPool constructor over bounded options *)

PoolEnvironments ==
    [webcontainer : BOOLEAN, runfiles : BOOLEAN,
     compileCacheDir : {None, Some("/cache")}]

CallerOptions ==
    [atomics : {None, Some("sync"), Some("async"), Some("disabled"), Some("undefined")},
     minThreads : {None, Some(2)},
     idleTimeout : {None, Some(5000)},
     recordTiming : {None, Some("true")},
     env : {None, Some(<<>>), Some(<<[k |-> "NODE_COMPILE_CACHE", v |-> "/mine"]>>)}]

InitPool ==
    /\ poolEnv \in PoolEnvironments
    /\ poolOptions \in CallerOptions
    /\ piscinaOptions = None
    /\ ExportsIdle /\ AssetsIdle /\ FsEmpty /\ ManifestIdle

NextPool == ConstructWorkerPool

SpecPool == InitPool /\ [][NextPool]_vars

----------------------------------------------------------------------------
(* Claims about generatePackageExports (checked under SpecExports) *)

\* the (subpath, condition, value) triples the call tries to insert
GeneratedTriples(eps) ==
    {[s |-> PackageJsonSubpath, c |-> "default", v |-> <<".", "package.json">>]}
    \cup {[s |-> SubpathOf(eps[i]), c |-> "types",
           v |-> <<".">> \o PathRelative(PrimaryDest, eps[i].declarationsBundled)] :
              i \in DOMAIN eps}
    \cup {[s |-> SubpathOf(eps[i]), c |-> "default",
           v |-> <<".">> \o PathRelative(PrimaryDest, eps[i].fesm2022)] : i \in DOMAIN eps}

\* the (subpath, condition) pairs declared in an optional export map
DeclaredPairs(declared) ==
    IF IsSome(declared)
    THEN UNION {{[s |-> e.k, c |-> x.k] : x \in Range(e.v)} : e \in Range(Val(declared))}
    ELSE {}

----------------------------------------------------------------------------
(* Claims about copyAssets (checked under SpecAssets) *)

\* an absolute path that is not the root directory or below it
OutsideRoot(p, root) == ~IsPrefix(root, p)

\* the positions of the combined list whose entry resolves outside a root
OffendingPositions ==
    {i \in DOMAIN CombinedAssets :
        \/ OutsideRoot(ResolveAsset(CombinedAssets[i]).input, SrcRoot)
        \/ OutsideRoot(ResolveAsset(CombinedAssets[i]).output, DestRoot)}

\* C2: if any asset of the combined list resolves to an input outside the source
\* root or an output outside the destination root, the call never gets past
\* that asset, never reaches its copy loop and never returns normally, and no
\* copyFile, no graph node insertion and no dependency edge has been performed,
\* wherever the offending asset stands in the list; and a call that threw has
\* performed none either.
C2_NoCopyWhenAssetOutside ==
    /\ OffendingPositions # {} =>
           /\ assetPc \notin {"copy", "done"}
           /\ copied = <<>> /\ graphNodes = {} /\ graphEdges = {} /\ destFiles = {}
           /\ (assetPc = "resolve" => \A i \in OffendingPositions : assetIdx <= i)
    /\ AssetThrew =>
           copied = <<>> /\ graphNodes = {} /\ graphEdges = {} /\ destFiles = {}

\* C2 witness: the call threw on an offending asset that is not first in the
\* list, after the assets before it were resolved.
C2_Witness ==
    /\ AssetThrew
    /\ assetIdx > 1
    /\ assetIdx \in OffendingPositions
    /\ Len(assets) = assetIdx - 1

----------------------------------------------------------------------------
(* Claims about writePackageJson and the transform (checked under SpecManifest) *)

\* the names in an optional dependency object that no allowed pattern matches
NotAllowed(dependencies) ==
    IF IsSome(dependencies)
    THEN {d \in Keys(Val(dependencies)) :
             \A regex \in cfg.allowedNonPeerDependencies : ~RegexTest(regex, d)}
    ELSE {}

\* nothing is left of the primary destination directory
DestinationAbsent ==
    /\ \A f \in destFiles : ~IsPrefix(PrimaryDest, f)
    /\ \A d \in DOMAIN manifests : ~IsPrefix(PrimaryDest, d)

\* the transform stopped in writePackageJson (copyAssets had returned)
ManifestRejected == pc = "failed" /\ inProgress = "primary" /\ assetPc = "done"

\* C3: whenever the dependencies after the shim step hold a name that no
\* allowed pattern matches, the call fails with an error naming such a
\* dependency, and when it has failed the destination directory (the
\* .npmignore and the copied assets included) is gone and holds no
\* package.json; a call that succeeded had no such dependency.
C3_RejectedDependencyRollsBack ==
    /\ \A i \in DOMAIN written :
           LET bad == NotAllowed(written[i].packageJson.dependencies)
           IN  IF bad # {} THEN written[i].error \in bad ELSE written[i].error = "none"
    /\ ManifestRejected =>
           /\ written[Len(written)].error # "none"
           /\ DestinationAbsent
    /\ (pc = "done" /\ inProgress = "primary") =>
           /\ written[Len(written)].error = "none"
           /\ PrimaryDest \in DOMAIN manifests

\* C3 witness: the write was rejected for left-pad after assets and .npmignore
\* had been written in this invocation.
C3_Witness ==
    /\ ManifestRejected
    /\ written[Len(written)].error = "left-pad"
    /\ ~cfg.watch
    /\ Len(copied) >= 2

\* the written manifest of a call, as its scripts object
WrittenScripts(e) == e.packageJson.scripts
HasScript(scripts, name) == IsSome(scripts) /\ HasKey(Val(scripts), name)

\* C4 (as stated): not partial => the guard script is written; partial => no
\* prepublishOnly script is written, whatever the declared scripts and
\* keepLifecycleScripts are.
C4_PartialNeverHasPrepublishOnly ==
    \A i \in DOMAIN written :
        written[i].error = "none" =>
            IF cfg.compilationMode # "partial"
            THEN /\ HasScript(WrittenScripts(written[i]), "prepublishOnly")
                 /\ Get(Val(WrittenScripts(written[i])), "prepublishOnly") = PrepublishGuard
            ELSE ~HasScript(WrittenScripts(written[i]), "prepublishOnly")

\* C4 (amended): not partial => scripts.prepublishOnly is the guard script;
\* partial => the manifest has a prepublishOnly script only when
\* keepLifecycleScripts is true and the manifest fragment declares one, and it
\* is then the declared script.
C4_GuardByCompilationMode ==
    \A i \in DOMAIN written :
        written[i].error = "none" =>
            LET out == WrittenScripts(written[i])
                declared == written[i].before.scripts
            IN  IF cfg.compilationMode # "partial"
                THEN /\ HasScript(out, "prepublishOnly")
                     /\ Get(Val(out), "prepublishOnly") = PrepublishGuard
                ELSE /\ HasScript(out, "prepublishOnly") <=>
                            (cfg.keepLifecycleScripts = "true"
                             /\ HasScript(declared, "prepublishOnly"))
                     /\ HasScript(out, "prepublishOnly") =>
                            Get(Val(out), "prepublishOnly") = Get(Val(declared), "prepublishOnly")

\* C4 witness: manifests were written in a mode that is neither 'partial' nor
\* 'full', and a later rebuild wrote again.
C4_Witness ==
    /\ Len(written) >= 2
    /\ cfg.compilationMode = "undefined"
    /\ written[2].error = "none"
    /\ IsSome(written[2].before.scripts)

\* C5: unless keepLifecycleScripts is exactly true, no script entry declared
\* in the manifest fragment appears in the written manifest, in either
\* compilation mode; when it is true every declared entry is written, except
\* that the guard replaces a declared prepublishOnly outside partial mode.
C5_ScriptsRemovedUnlessKept ==
    \A i \in DOMAIN written :
        (written[i].error = "none" /\ IsSome(written[i].before.scripts)) =>
            LET out == WrittenScripts(written[i])
                declared == Val(written[i].before.scripts)
            IN  \A j \in DOMAIN declared :
                    LET present == /\ HasScript(out, declared[j].k)
                                   /\ Get(Val(out), declared[j].k) = declared[j].v
                    IN  IF cfg.keepLifecycleScripts # "true" THEN ~present
                        ELSE \/ present
                             \/ /\ declared[j].k = "prepublishOnly"
                                /\ cfg.compilationMode # "partial"

\* C5 witness: a manifest declaring scripts was written for a package whose
\* keepLifecycleScripts is truthy but not true, outside partial mode.
C5_Witness ==
    \E i \in DOMAIN written :
        /\ written[i].error = "none"
        /\ written[i].before.scripts = Some(<<[k |-> "build", v |-> "tsc"]>>)
        /\ cfg.keepLifecycleScripts = "yes"
        /\ cfg.compilationMode = "full"

\* the warning of the peer branch
MigrationWarning == "warn: tslib moved to dependencies"

\* C6: for a call that succeeds while the toolchain declares a tslib version,
\* with "declares" read as the code reads it (a non-empty version under the
\* key) on the fragment as it is when the call starts: declared in neither
\* object => written dependencies.tslib is the toolchain's version; declared
\* in peerDependencies => written dependencies.tslib is the peer version,
\* peerDependencies has no tslib and the migration warning is emitted;
\* declared in dependencies only => dependencies is written unchanged.
C6_TslibPlacement ==
    \A i \in DOMAIN written :
        (written[i].error = "none" /\ IsSome(cfg.angularTslib)) =>
            LET before == written[i].before
                out == written[i].packageJson
                inPeer == Truthy(before.peerDependencies, "tslib")
                inDeps == Truthy(before.dependencies, "tslib")
            IN  /\ (~inPeer /\ ~inDeps) =>
                       /\ Truthy(out.dependencies, "tslib")
                       /\ Get(Val(out.dependencies), "tslib") = Val(cfg.angularTslib)
                       /\ MigrationWarning \notin written[i].messages
                /\ inPeer =>
                       /\ Truthy(out.dependencies, "tslib")
                       /\ Get(Val(out.dependencies), "tslib")
                              = Get(Val(before.peerDependencies), "tslib")
                       /\ ~HasKey(Val(out.peerDependencies), "tslib")
                       /\ MigrationWarning \in written[i].messages
                /\ (inDeps /\ ~inPeer) =>
                       /\ out.dependencies = before.dependencies
                       /\ out.peerDependencies = before.peerDependencies
                       /\ MigrationWarning \notin written[i].messages

\* C6 witness: a successful call moved a declared peer tslib while
\* dependencies declared another version.
C6_Witness ==
    \E i \in DOMAIN written :
        /\ written[i].error = "none"
        /\ IsSome(cfg.angularTslib)
        /\ Truthy(written[i].before.peerDependencies, "tslib")
        /\ MigrationWarning \in written[i].messages

\* the entries of a manifest text other than its version
WithoutVersion(text) == Remove(text, "version")

\* C7: the step taken for a secondary entry point copies no asset, touches no
\* plain file (.npmignore included), runs no writePackageJson and leaves the
\* graph alone; it writes exactly {module: <relative path of the bundle>} to
\* the secondary destination, in watch mode or not; and the primary
\* package.json is changed only in watch mode and only when it exists, to the
\* same entries with version set to a fresh watch version; it is never
\* created.
C7_SecondaryBranch ==
    [][ pc = "secondary" =>
          /\ copied' = copied /\ destFiles' = destFiles
          /\ graphNodes' = graphNodes /\ graphEdges' = graphEdges
          /\ written' = written /\ fragment' = fragment
          /\ SecondaryDest \in DOMAIN manifests'
          /\ manifests'[SecondaryDest] =
                 <<[k |-> "module", v |-> <<"..", "fesm2022", "lib-sub.mjs">>]>>
          /\ DOMAIN manifests' = DOMAIN manifests \cup {SecondaryDest}
          /\ PrimaryDest \in DOMAIN manifests =>
                 IF cfg.watch
                 THEN /\ HasKey(manifests'[PrimaryDest], "version")
                      /\ Get(manifests'[PrimaryDest], "version") = [watch |-> TRUE, stamp |-> now]
                      /\ WithoutVersion(manifests'[PrimaryDest])
                             = WithoutVersion(manifests[PrimaryDest])
                 ELSE manifests'[PrimaryDest] = manifests[PrimaryDest]
      ]_vars

\* C7 witness: in watch mode a secondary entry point was built after the
\* primary manifest had been written at an earlier time, and the primary
\* manifest now carries the later watch version.
C7_Witness ==
    /\ pc = "done" /\ inProgress = "secondary" /\ cfg.watch
    /\ Len(written) = 1 /\ written[1].error = "none"
    /\ written[1].packageJson.version = Some([watch |-> TRUE, stamp |-> 1])
    /\ PrimaryDest \in DOMAIN manifests
    /\ Get(manifests[PrimaryDest], "version") = [watch |-> TRUE, stamp |-> 2]
    /\ SecondaryDest \in DOMAIN manifests

\* C10 (as stated): writePackageJson leaves entryPoint.packageJson as it was
\* declared, and two successful invocations write the same manifest apart
\* from the version, in particular the same dependencies.tslib.
C10_FragmentUnchanged ==
    /\ fragment = fragment0
    /\ \A i, j \in DOMAIN written :
           (written[i].error = "none" /\ written[j].error = "none") =>
               [written[i].packageJson EXCEPT !.version = None]
                   = [written[j].packageJson EXCEPT !.version = None]

----------------------------------------------------------------------------
(* Claims about the WorkerPool constructor (checked under SpecPool) *)

\* C8 (as stated): with process.versions.webcontainer set, the options handed
\* to the pool have atomics = 'disabled', whatever options the caller gave.
C8_WebcontainerAlwaysDisabled ==
    (IsSome(piscinaOptions) /\ poolEnv.webcontainer) =>
        Val(piscinaOptions).atomics = "disabled"

\* C8 (amended): when the caller's options have no atomics key, atomics is
\* 'disabled' with process.versions.webcontainer set and 'sync' without it;
\* when they have one, its value is passed on, whatever the runtime is.
C8_AtomicsDefaultUnlessOverridden ==
    IsSome(piscinaOptions) =>
        IF poolOptions.atomics = None
        THEN Val(piscinaOptions).atomics
                 = (IF poolEnv.webcontainer THEN "disabled" ELSE "sync")
        ELSE Val(piscinaOptions).atomics = Val(poolOptions.atomics)

\* C8 witness: a pool was constructed in a webcontainer from options without
\* an atomics key.
C8_Witness ==
    /\ IsSome(piscinaOptions)
    /\ poolEnv.webcontainer
    /\ poolOptions.atomics = None
    /\ Val(piscinaOptions).atomics = "disabled"

====
